---- MODULE Spec2Model ----
(***************************************************************************)
(* Model of jules-scratch/verification/verify_calendar.py: a script that   *)
(* starts a static file server on a daemon thread, drives a headless       *)
(* browser through a calendar page with one mocked API route, asserts on   *)
(* the DOM and saves a screenshot.                                         *)
(*                                                                         *)
(* Two threads are modelled: the main thread (run_verification, one action *)
(* per statement) and the server thread (start_server).  The page and the  *)
(* operating system are the environment: the page issues requests and      *)
(* shows or hides elements, another process may own the port.              *)
(***************************************************************************)
EXTENDS Integers, Sequences, FiniteSets, TLC

VARIABLES
    pc,               \* index into Program of the statement the main thread is at
    status,           \* "running" | "done" (run_verification returned) | "failed" (exception raised)
    trace,            \* the statements executed so far, each with its outcome
    exited,           \* the interpreter process has terminated
    srv,              \* server thread: "unstarted" | "starting" | "serving" | "bind_failed"
    portOwner,        \* who listens on each port: "free" | "own" | "foreign"
    browser,          \* "none" | "open" | "closed"
    routeInstalled,   \* page.route(...) has completed
    navState,         \* "idle" | "loading" | "loaded"
    navTarget,        \* who received the navigation request: "none" | "own" | "foreign" | "refused"
    navAnswered,      \* the navigation request got its response
    lastReq,          \* the last request the page issued and how it was resolved
    now,              \* ms elapsed in the wait for the calendar
    seen,             \* what each asserting statement observed of its locator
    clicked,          \* the click on the day button was performed
    screenshotWritten \* verification.png was written

vars == << pc, status, trace, exited, srv, portOwner, browser,
           routeInstalled, navState, navTarget, navAnswered, lastReq, now, seen,
           clicked, screenshotWritten >>

(***************************************************************************)
(* Bounds of the model.                                                    *)
(***************************************************************************)
\* longest request URL, in tokens
MaxUrlLen == 3
\* most elements one locator can match
MaxMatches == 2
\* ms between two evaluations of a retried expectation
PollMs == 2500

(***************************************************************************)
(* Program constants.                                                      *)
(***************************************************************************)
PORT == 8010

SERVE_DIR == "."

\* timeout=10000 of the calendar expectation
calendar_timeout_late == 2 * 10000
calendar_timeout == 10000

\* threading.Thread(..., daemon=True)
daemon_false == FALSE
daemon == TRUE

\* page_url = f"http://localhost:{PORT}/web/index.html"
page_url == [port |-> PORT, path |-> << "web/", "index.html" >>]

\* The mock dataset.
mock_schedule ==
    [duties |-> <<
        [id |-> 1, date |-> "2025-10-15T00:00:00Z", title |-> "Morning Duty",
         time |-> "08:00", assignees |-> << [id |-> 101, name |-> "Alice"] >>],
        [id |-> 2, date |-> "2025-10-20T00:00:00Z", title |-> "Evening Duty",
         time |-> "18:00", assignees |-> << [id |-> 123, name |-> "Dev User"] >>] >>]

(***************************************************************************)
(* URLs.  A URL is a sequence of tokens, each token an unbroken run of     *)
(* characters; the pattern r"api/v1/schedule" is the two tokens "api/v1/"  *)
(* and "schedule" in a row.                                                *)
(***************************************************************************)
Tokens == {"api/v1/", "schedule"}

schedule_pattern == << "api/v1/", "schedule" >>

RECURSIVE SeqsUpTo(_)
SeqsUpTo(n) ==
    IF n = 0 THEN { << >> }
    ELSE LET shorter == SeqsUpTo(n - 1)
         IN  shorter \cup { Append(s, t) : s \in { x \in shorter : Len(x) = n - 1 }, t \in Tokens }

Urls == SeqsUpTo(MaxUrlLen)

\* re.match: the pattern at the start of the string only.
re_match(pattern, url) ==
    /\ Len(url) >= Len(pattern)
    /\ SubSeq(url, 1, Len(pattern)) = pattern

RECURSIVE SearchFrom(_, _, _)
SearchFrom(pattern, url, i) ==
    IF i + Len(pattern) - 1 > Len(url) THEN FALSE
    ELSE IF SubSeq(url, i, i + Len(pattern) - 1) = pattern THEN TRUE
    ELSE SearchFrom(pattern, url, i + 1)

\* re.search: the first position at which the pattern matches, scanning left to right.
re_search(pattern, url) == SearchFrom(pattern, url, 1)

\* handle_route: the calls made on the route object, in order.
handle_route(url) ==
    IF re_search(schedule_pattern, url)
    THEN << [op |-> "fulfill", status |-> 200, json |-> mock_schedule] >>
    ELSE << [op |-> "continue_"] >>

NoRequest == [url |-> << >>, routed |-> FALSE, calls |-> << >>, issued |-> FALSE]

\* A request of the page: handed to the handler when page.route(re.compile(r".*"), ...)
\* is installed, sent to the network as it is otherwise.
Request(url) ==
    IF routeInstalled
    THEN [url |-> url, routed |-> TRUE, calls |-> handle_route(url), issued |-> TRUE]
    ELSE [url |-> url, routed |-> FALSE, calls |-> << >>, issued |-> TRUE]

(***************************************************************************)
(* The main thread's statements, in program order.                         *)
(***************************************************************************)
Program_gotoFirst ==
    << "thread_start", "launch", "new_page", "goto", "route",
       "expect_calendar", "expect_day", "click", "expect_modal", "expect_heading",
       "expect_card", "expect_withdraw", "screenshot", "close" >>

Program_closeEarly ==
    << "thread_start", "launch", "new_page", "route", "goto",
       "expect_calendar", "expect_day", "click", "expect_modal", "expect_heading",
       "expect_card", "expect_withdraw", "close", "screenshot" >>

Program ==
    << "thread_start", "launch", "new_page", "route", "goto",
       "expect_calendar", "expect_day", "click", "expect_modal", "expect_heading",
       "expect_card", "expect_withdraw", "screenshot", "close" >>

Observers == {"expect_calendar", "expect_day", "click", "expect_modal",
              "expect_heading", "expect_card", "expect_withdraw"}

(***************************************************************************)
(* What a locator resolves to when a statement evaluates it: how many      *)
(* elements match, and whether the match is visible and enabled.  Only     *)
(* form controls (the day button, the Withdraw button) can be disabled.    *)
(***************************************************************************)
Unseen == [count |-> 0, visible |-> FALSE, enabled |-> FALSE]

ObsButton ==
    { Unseen } \cup
    [count : 1..MaxMatches, visible : BOOLEAN, enabled : BOOLEAN]

ObsElement == { o \in ObsButton : o.count > 0 => o.enabled }

\* expect(locator).to_be_attached(): one match, visible or not.
to_be_attached(o) == o.count = 1

\* expect(locator.first).to_be_visible(): the first of any number of matches.
first_to_be_visible(o) == o.count >= 1 /\ o.visible

\* expect(locator).to_be_visible(): strict, exactly one match, and it is visible.
to_be_visible(o) == o.count = 1 /\ o.visible

\* locator.click(): strict, and waits for the element to be visible and enabled.
actionable(o) == o.count = 1 /\ o.visible /\ o.enabled

(***************************************************************************)
(* Control flow of the main thread.                                        *)
(***************************************************************************)
At(s) == status = "running" /\ pc <= Len(Program) /\ Program[pc] = s

Advance(s) ==
    /\ trace' = Append(trace, [step |-> s, ok |-> TRUE])
    /\ pc' = pc + 1
    /\ status' = IF pc + 1 > Len(Program) THEN "done" ELSE "running"

\* An exception swallowed by a try/except around the statement.
Swallow(s) ==
    /\ trace' = Append(trace, [step |-> s, ok |-> FALSE])
    /\ pc' = pc + 1
    /\ status' = IF pc + 1 > Len(Program) THEN "done" ELSE "running"

\* An exception: nothing in run_verification catches it, it leaves the function.
Raise(s) ==
    /\ trace' = Append(trace, [step |-> s, ok |-> FALSE])
    /\ pc' = pc
    /\ status' = "failed"

Min(a, b) == IF a < b THEN a ELSE b

Init ==
    /\ pc = 1
    /\ status = "running"
    /\ trace = << >>
    /\ exited = FALSE
    /\ srv = "unstarted"
    /\ portOwner \in [{PORT} -> {"free", "foreign"}]
    /\ browser = "none"
    /\ routeInstalled = FALSE
    /\ navState = "idle"
    /\ navTarget = "none"
    /\ navAnswered = FALSE
    /\ lastReq = NoRequest
    /\ now = 0
    /\ seen = [s \in Observers |-> Unseen]
    /\ clicked = FALSE
    /\ screenshotWritten = FALSE

(***************************************************************************)
(* Server thread.                                                          *)
(***************************************************************************)
\* server_thread.start()
ThreadStart ==
    /\ At("thread_start")
    /\ srv' = "starting"
    /\ Advance("thread_start")
    /\ UNCHANGED << exited, portOwner, browser, routeInstalled,
                    navState, navTarget, navAnswered, lastReq, now, seen, clicked,
                    screenshotWritten >>

\* socketserver.TCPServer(("", PORT), Handler): binds, or raises OSError in the
\* server thread, which ends that thread and nothing else.
start_server ==
    /\ srv = "starting"
    /\ ~exited
    /\ IF portOwner[PORT] = "free"
       THEN /\ portOwner' = [portOwner EXCEPT ![PORT] = "own"]
            /\ srv' = "serving"
       ELSE /\ srv' = "bind_failed"
            /\ UNCHANGED portOwner
    /\ UNCHANGED << pc, status, trace, exited, browser, routeInstalled, navState,
                    navTarget, navAnswered, lastReq, now, seen, clicked,
                    screenshotWritten >>

\* httpd.serve_forever(): answers the navigation request from SERVE_DIR.
serve_forever ==
    /\ srv = "serving"
    /\ ~exited
    /\ navState = "loading"
    /\ navTarget = "own"
    /\ ~navAnswered
    /\ navAnswered' = TRUE
    /\ UNCHANGED << pc, status, trace, exited, srv, portOwner,
                    browser, routeInstalled, navState, navTarget, lastReq, now,
                    seen, clicked, screenshotWritten >>

\* The process that owns the port instead answers the navigation request.
ForeignServe ==
    /\ ~exited
    /\ navState = "loading"
    /\ navTarget = "foreign"
    /\ ~navAnswered
    /\ navAnswered' = TRUE
    /\ UNCHANGED << pc, status, trace, exited, srv, portOwner,
                    browser, routeInstalled, navState, navTarget, lastReq, now,
                    seen, clicked, screenshotWritten >>

\* Interpreter shutdown once the main thread has ended: it joins the threads
\* that are not daemons and abandons the daemons.
ProcessExit ==
    /\ status \in {"done", "failed"}
    /\ ~exited
    /\ daemon \/ srv \notin {"starting", "serving"}
    /\ exited' = TRUE
    /\ UNCHANGED << pc, status, trace, srv, portOwner, browser,
                    routeInstalled, navState, navTarget, navAnswered, lastReq, now,
                    seen, clicked, screenshotWritten >>

(***************************************************************************)
(* Main thread, statement by statement.                                    *)
(***************************************************************************)
\* browser = p.chromium.launch(headless=True)
Launch ==
    /\ At("launch")
    /\ \/ browser' = "open" /\ Advance("launch")
       \/ Raise("launch") /\ UNCHANGED browser
    /\ UNCHANGED << exited, srv, portOwner, routeInstalled,
                    navState, navTarget, navAnswered, lastReq, now, seen, clicked,
                    screenshotWritten >>

\* page = browser.new_page()
NewPage ==
    /\ At("new_page")
    /\ \/ Advance("new_page")
       \/ Raise("new_page")
    /\ UNCHANGED << exited, srv, portOwner, browser,
                    routeInstalled, navState, navTarget, navAnswered, lastReq, now,
                    seen, clicked, screenshotWritten >>

\* page.route(re.compile(r".*"), handle_route)
Route ==
    /\ At("route")
    /\ routeInstalled' = TRUE
    /\ Advance("route")
    /\ UNCHANGED << exited, srv, portOwner, browser, navState,
                    navTarget, navAnswered, lastReq, now, seen, clicked,
                    screenshotWritten >>

\* page.goto(page_url, ...): the navigation request leaves for page_url.port.
GotoIssue ==
    /\ At("goto")
    /\ navState = "idle"
    /\ navState' = "loading"
    /\ lastReq' = Request(page_url.path)
    /\ navTarget' = CASE portOwner[page_url.port] = "own" -> "own"
                      [] portOwner[page_url.port] = "foreign" -> "foreign"
                      [] OTHER -> "refused"
    /\ UNCHANGED << pc, status, trace, exited, srv, portOwner,
                    browser, routeInstalled, navAnswered, now, seen, clicked,
                    screenshotWritten >>

\* page.goto(..., wait_until="networkidle") returns, or raises on a refused
\* connection or on its own timeout.
GotoDone ==
    /\ At("goto")
    /\ navState = "loading"
    /\ \/ /\ navAnswered
          /\ navState' = "loaded"
          /\ Advance("goto")
       \/ /\ Raise("goto")
          /\ UNCHANGED navState
    /\ UNCHANGED << exited, srv, portOwner, browser,
                    routeInstalled, navTarget, navAnswered, lastReq, now, seen,
                    clicked, screenshotWritten >>

\* A request of the page (a script, a stylesheet, the schedule API call), issued
\* while the main thread is inside a browser call.
PageRequest ==
    /\ status = "running"
    /\ browser = "open"
    /\ navState # "idle"
    /\ \E url \in Urls : lastReq' = Request(url)
    /\ UNCHANGED << pc, status, trace, exited, srv, portOwner,
                    browser, routeInstalled, navState, navTarget, navAnswered, now,
                    seen, clicked, screenshotWritten >>

\* expect(calendar_locator).to_be_visible(timeout=10000): evaluated again and
\* again until it holds or the timeout has elapsed.
ExpectCalendar ==
    /\ At("expect_calendar")
    /\ \E o \in ObsElement :
        /\ seen' = [seen EXCEPT !["expect_calendar"] = o]
        /\ IF o.count > 1
           THEN Raise("expect_calendar") /\ UNCHANGED now
           ELSE IF to_be_visible(o)
           THEN Advance("expect_calendar") /\ UNCHANGED now
           ELSE IF now >= calendar_timeout
           THEN Raise("expect_calendar") /\ UNCHANGED now
           ELSE /\ now' = Min(now + PollMs, calendar_timeout)
                /\ UNCHANGED << pc, status, trace >>
    /\ UNCHANGED << exited, srv, portOwner, browser,
                    routeInstalled, navState, navTarget, navAnswered, lastReq,
                    clicked, screenshotWritten >>

\* An expectation with the default timeout: it holds of what the page shows
\* within that time, or it raises.
Expect(s, choices) ==
    /\ At(s)
    /\ \E o \in choices :
        /\ seen' = [seen EXCEPT ![s] = o]
        /\ IF to_be_visible(o) THEN Advance(s) ELSE Raise(s)
    /\ UNCHANGED << exited, srv, portOwner, browser,
                    routeInstalled, navState, navTarget, navAnswered, lastReq, now,
                    clicked, screenshotWritten >>

\* expect(day_with_duty_locator).to_be_visible()
ExpectDay == Expect("expect_day", ObsButton)

\* day_with_duty_locator.click()
Click ==
    /\ At("click")
    /\ \E o \in ObsButton :
        /\ seen' = [seen EXCEPT !["click"] = o]
        /\ IF actionable(o)
           THEN clicked' = TRUE /\ Advance("click")
           ELSE Raise("click") /\ UNCHANGED clicked
    /\ UNCHANGED << exited, srv, portOwner, browser,
                    routeInstalled, navState, navTarget, navAnswered, lastReq, now,
                    screenshotWritten >>

\* expect(modal_locator).to_be_visible()
ExpectModal == Expect("expect_modal", ObsElement)

\* expect(modal_locator.get_by_text("Duties for 2025-10-20")).to_be_visible()
ExpectHeading == Expect("expect_heading", ObsElement)

\* expect(duty_card_locator).to_be_visible()
ExpectCard == Expect("expect_card", ObsElement)

\* expect(withdraw_button).to_be_visible()
ExpectWithdraw == Expect("expect_withdraw", ObsButton)

\* page.screenshot(path=screenshot_path)
Screenshot ==
    /\ At("screenshot")
    /\ \/ screenshotWritten' = TRUE /\ Advance("screenshot")
       \/ Raise("screenshot") /\ UNCHANGED screenshotWritten
    /\ UNCHANGED << exited, srv, portOwner, browser,
                    routeInstalled, navState, navTarget, navAnswered, lastReq, now,
                    seen, clicked >>

\* browser.close()
Close ==
    /\ At("close")
    /\ \/ browser' = "closed" /\ Advance("close")
       \/ Raise("close") /\ UNCHANGED browser
    /\ UNCHANGED << exited, srv, portOwner, routeInstalled,
                    navState, navTarget, navAnswered, lastReq, now, seen, clicked,
                    screenshotWritten >>

run_verification ==
    \/ ThreadStart
    \/ Launch
    \/ NewPage
    \/ Route
    \/ GotoIssue
    \/ GotoDone
    \/ ExpectCalendar
    \/ ExpectDay
    \/ Click
    \/ ExpectModal
    \/ ExpectHeading
    \/ ExpectCard
    \/ ExpectWithdraw
    \/ Screenshot
    \/ Close

Next ==
    \/ run_verification
    \/ start_server
    \/ serve_forever
    \/ ForeignServe
    \/ PageRequest
    \/ ProcessExit

Spec == Init /\ [][Next]_vars

\* The main thread is scheduled while it has a statement to run, and the
\* interpreter shuts down once the main thread has ended.
FairSpec == Spec /\ WF_vars(run_verification) /\ WF_vars(ProcessExit)

(***************************************************************************)
(* Properties.                                                             *)
(***************************************************************************)
Ran(s) == \E i \in 1..Len(trace) : trace[i].step = s

Passed(s) == \E i \in 1..Len(trace) : trace[i].step = s /\ trace[i].ok

FailedAt(s) == \E i \in 1..Len(trace) : trace[i].step = s /\ ~trace[i].ok

TypeOK ==
    /\ pc \in 1..(Len(Program) + 1)
    /\ status \in {"running", "done", "failed"}
    /\ exited \in BOOLEAN
    /\ srv \in {"unstarted", "starting", "serving", "bind_failed"}
    /\ portOwner \in [{PORT} -> {"free", "own", "foreign"}]
    /\ browser \in {"none", "open", "closed"}
    /\ routeInstalled \in BOOLEAN
    /\ navState \in {"idle", "loading", "loaded"}
    /\ navTarget \in {"none", "own", "foreign", "refused"}
    /\ navAnswered \in BOOLEAN
    /\ now \in 0..calendar_timeout
    /\ \A s \in Observers : seen[s] \in ObsButton
    /\ clicked \in BOOLEAN
    /\ screenshotWritten \in BOOLEAN

\* The two duties of the mock dataset, written out.
ExpectedBody ==
    [duties |-> <<
        [id |-> 1, date |-> "2025-10-15T00:00:00Z", title |-> "Morning Duty",
         time |-> "08:00", assignees |-> << [id |-> 101, name |-> "Alice"] >>],
        [id |-> 2, date |-> "2025-10-20T00:00:00Z", title |-> "Evening Duty",
         time |-> "18:00", assignees |-> << [id |-> 123, name |-> "Dev User"] >>] >>]

\* The URL contains "api/v1/schedule" somewhere.
ContainsSchedule(url) ==
    \E i \in 1..(Len(url) - 1) : url[i] = "api/v1/" /\ url[i + 1] = "schedule"

\* C1: every request handed to handle_route is resolved by exactly one call on
\* the route: fulfill with status 200 and the mock dataset when the URL contains
\* "api/v1/schedule", continue_ otherwise; never both, never neither.
C1_RouteResolvesOnce ==
    (lastReq.issued /\ lastReq.routed) =>
        /\ Len(lastReq.calls) = 1
        /\ ContainsSchedule(lastReq.url) =>
              /\ lastReq.calls[1].op = "fulfill"
              /\ lastReq.calls[1].status = 200
              /\ lastReq.calls[1].json = ExpectedBody
        /\ ~ContainsSchedule(lastReq.url) => lastReq.calls[1].op = "continue_"

\* A request whose URL has the pattern after its first token was mocked.
C1_Witness ==
    /\ lastReq.issued
    /\ lastReq.routed
    /\ lastReq.url = << "schedule", "api/v1/", "schedule" >>
    /\ lastReq.calls[1].op = "fulfill"

\* C2: once the server thread has failed to bind the port, the main flow issues
\* no navigation, writes no screenshot and does not finish successfully.
C2_BindFailureIsFatal ==
    [][srv = "bind_failed" =>
          /\ navState' = navState
          /\ screenshotWritten' = screenshotWritten
          /\ (status' = "done" => status = "done")]_vars

\* C3: the route is installed before the navigation is issued, and every
\* request of the page passes through handle_route.
C3_RouteBeforeGoto ==
    /\ navState # "idle" => routeInstalled
    /\ lastReq.issued => lastReq.routed

\* The navigation request itself went through the handler and was continued.
C3_Witness ==
    /\ navState = "loading"
    /\ lastReq.issued
    /\ lastReq.url = page_url.path
    /\ lastReq.routed
    /\ lastReq.calls[1].op = "continue_"

AssertSteps == {"expect_calendar", "expect_day", "expect_modal", "expect_heading",
                "expect_card", "expect_withdraw"}

\* C4: a failed statement is the last statement of the run and leaves the run
\* failed; no statement is executed twice; the screenshot is written only when
\* every assertion before it passed.
C4_FailureIsTerminal ==
    /\ \A i \in 1..Len(trace) : ~trace[i].ok => (i = Len(trace) /\ status = "failed")
    /\ \A i, j \in 1..Len(trace) : i < j => trace[i].step # trace[j].step
    /\ status = "failed" => (Len(trace) > 0 /\ ~trace[Len(trace)].ok)
    /\ screenshotWritten => \A s \in AssertSteps : Passed(s)
    /\ FailedAt("expect_day") => ~clicked

\* The modal did not show after the click: the run ended there.
C4_Witness ==
    /\ FailedAt("expect_modal")
    /\ clicked
    /\ status = "failed"
    /\ ~screenshotWritten
    /\ exited

WaitingForCalendar ==
    status = "running" /\ Passed("goto") /\ ~Ran("expect_calendar")

\* C5: the calendar expectation passes only on a calendar seen visible within
\* 10000 ms, the wait never lasts longer than 10000 ms, a run whose wait failed
\* never clicks, and the wait always ends.
C5_CalendarWithinTimeout ==
    /\ [](/\ now <= 10000
          /\ Passed("expect_calendar") =>
                (seen["expect_calendar"].count = 1 /\ seen["expect_calendar"].visible)
          /\ FailedAt("expect_calendar") => (status = "failed" /\ ~Ran("click") /\ ~clicked)
          /\ clicked => Passed("expect_calendar"))
    /\ (WaitingForCalendar ~> ~WaitingForCalendar)

\* The calendar was still absent when the 10000 ms had elapsed.
C5_Witness ==
    /\ FailedAt("expect_calendar")
    /\ now = 10000
    /\ seen["expect_calendar"].count = 0
    /\ status = "failed"

Verified == Passed("expect_withdraw")

\* C6 as stated: a verified modal has exactly one matching duty card and an
\* enabled Withdraw control.
C6_VerifiedImpliesEnabledWithdraw ==
    Verified =>
        /\ seen["expect_card"].count = 1
        /\ seen["expect_withdraw"].count = 1
        /\ seen["expect_withdraw"].enabled

\* C6 amended: a verified modal has exactly one matching duty card, visible,
\* and in it exactly one Withdraw button, visible; any other number of cards
\* or of buttons, or an invisible one, fails the run.
C6_VerifiedImpliesVisibleWithdraw ==
    /\ Verified =>
          /\ seen["expect_card"].count = 1
          /\ seen["expect_card"].visible
          /\ seen["expect_withdraw"].count = 1
          /\ seen["expect_withdraw"].visible
    /\ (Ran("expect_card") /\ seen["expect_card"].count # 1) =>
          (FailedAt("expect_card") /\ status = "failed" /\ ~Verified)
    /\ (Ran("expect_withdraw") /\ ~(seen["expect_withdraw"].count = 1
                                     /\ seen["expect_withdraw"].visible)) =>
          (FailedAt("expect_withdraw") /\ status = "failed")

\* The modal was verified with a Withdraw button that is visible and disabled.
C6_Witness ==
    /\ Verified
    /\ seen["expect_withdraw"].visible
    /\ ~seen["expect_withdraw"].enabled

\* C7: when the day button is absent or not visible, the run fails at the
\* expectation on it: no click, no modal assertion, no screenshot; a click is
\* only ever performed on a day button that was seen visible.
C7_AbsentDayFails ==
    /\ (Ran("expect_day") /\ ~(seen["expect_day"].count = 1 /\ seen["expect_day"].visible)) =>
          /\ FailedAt("expect_day")
          /\ status = "failed"
          /\ ~clicked
          /\ ~Ran("click")
          /\ ~Ran("expect_modal")
          /\ ~screenshotWritten
    /\ clicked =>
          /\ Passed("expect_day")
          /\ seen["click"].count = 1
          /\ seen["click"].visible

\* The day button was absent and the run ended at the expectation on it.
C7_Witness ==
    /\ FailedAt("expect_day")
    /\ seen["expect_day"].count = 0
    /\ ~clicked
    /\ exited

EarlierSteps == {"launch", "new_page", "route", "goto", "expect_calendar",
                 "expect_day", "click", "expect_modal", "expect_heading",
                 "expect_card", "expect_withdraw", "screenshot"}

\* C8: browser.close() is executed only after every earlier statement has
\* succeeded, as the last statement; a run that failed earlier never executes
\* it; a run that returns has executed it.
C8_CloseOnlyOnSuccess ==
    /\ Ran("close") =>
          /\ \A s \in EarlierSteps : Passed(s)
          /\ trace[Len(trace)].step = "close"
    /\ browser = "closed" => Passed("close")
    /\ status = "done" => (Passed("close") /\ browser = "closed")
    /\ (status = "failed" /\ ~FailedAt("close")) => (~Ran("close") /\ browser # "closed")
    /\ (\A s \in EarlierSteps : Passed(s)) => (Ran("close") \/ status = "running")

\* The successful run: the browser was closed after the screenshot.
C8_Witness ==
    /\ status = "done"
    /\ screenshotWritten
    /\ browser = "closed"
    /\ trace[Len(trace)].step = "close"

\* C9: whenever the navigation request has been issued, this script's server
\* had bound the port and was serving.
C9_ServerListeningAtGoto ==
    navTarget # "none" => (navTarget = "own" /\ srv = "serving")

\* C10: a serving server thread keeps serving, and once the main flow has ended
\* the process terminates.
C10_DaemonServerNeverBlocksExit ==
    /\ [][srv = "serving" => srv' = "serving"]_vars
    /\ [](exited => status \in {"done", "failed"})
    /\ ((status \in {"done", "failed"}) ~> exited)

\* The process has terminated with the server thread still in serve_forever.
C10_Witness ==
    /\ exited
    /\ srv = "serving"
    /\ status = "failed"

====
